---- MODULE Spec2Model ----
(***************************************************************************)
(* A model of the estimation toolkit: the Likelihood contract of           *)
(* pyMLE/core.py (MultinomialLikelihood, PoissonLikelihood, fit, the       *)
(* Fisher information matrix and uncertainties) and the L1Norm loss of     *)
(* oktopus/loss.py.                                                        *)
(*                                                                         *)
(* Floating-point values are modelled by exact rationals <<num, den>>      *)
(* (den > 0, lowest terms).  The optimizer (scipy.optimize.minimize) and   *)
(* the differentiation provider (autograd.jacobian) are external: the      *)
(* optimizer's result is a nondeterministic choice, the Jacobian of each   *)
(* model function of the model is written out by hand.                     *)
(***************************************************************************)
EXTENDS Integers, Sequences, FiniteSets, TLC

VARIABLES
    data,         \* instance -> self.data
    model,        \* instance -> self.pmf / self.mean (the name of a model function)
    opt_result,   \* instance -> self.opt_result (present = FALSE: attribute not set)
    last,         \* the most recent call on a likelihood, its outcome, and (before) what
                  \* the call found: fit the stored result, the matrix calls prevFisher
    fitReturned,  \* instance -> what the most recent completed fit returned
    prevFisher,   \* instance -> the matrix fisher_information_matrix returned since the
                  \* last fit call
    l1,           \* the L1Norm instance: data, model, _regularization, _evaluate
    l1last        \* the most recent call on the L1Norm instance and its outcome

mleVars == <<data, model, opt_result, last, fitReturned, prevFisher>>
l1Vars == <<l1, l1last>>
vars == <<data, model, opt_result, last, fitReturned, prevFisher, l1, l1last>>

(***************************************************************************)
(* Bounds                                                                  *)
(***************************************************************************)
\* parameter values are k/ParamDen for k in 1..MaxNum
MaxNum == 2
ParamDen == 5
\* the L1 parameters are integers in 0..MaxL1
MaxL1 == 3

(***************************************************************************)
(* Exact rational arithmetic standing for numpy's float arithmetic         *)
(***************************************************************************)
Abs(n) == IF n < 0 THEN -n ELSE n

RECURSIVE GCD(_, _)
GCD(a, b) == IF b = 0 THEN a ELSE GCD(b, a % b)

Norm(n, d) ==
    LET s == IF d < 0 THEN -1 ELSE 1
        g == GCD(Abs(n), Abs(d))
    IN  <<(s * n) \div g, (s * d) \div g>>

Rat(n) == <<n, 1>>
RZero == Rat(0)
ROne == Rat(1)
RAdd(a, b) == Norm(a[1] * b[2] + b[1] * a[2], a[2] * b[2])
RNeg(a) == <<-a[1], a[2]>>
RSub(a, b) == RAdd(a, RNeg(b))
RMul(a, b) == Norm(a[1] * b[1], a[2] * b[2])
RDiv(a, b) == Norm(a[1] * b[2], a[2] * b[1])

RECURSIVE RSum(_)
RSum(v) == IF v = <<>> THEN RZero ELSE RAdd(v[1], RSum(Tail(v)))

VMul(u, v) == [k \in 1..Len(u) |-> RMul(u[k], v[k])]
VDiv(u, v) == [k \in 1..Len(u) |-> RDiv(u[k], v[k])]

(***************************************************************************)
(* Matrices are sequences of rows; indices run from 1 where the code's run *)
(* from 0.                                                                 *)
(***************************************************************************)
Idx(n) == 1..n
Pairs(n) == Idx(n) \X Idx(n)

DropAt(s, k) == [t \in 1..(Len(s) - 1) |-> IF t < k THEN s[t] ELSE s[t + 1]]
Minor(M, r, c) == [a \in 1..(Len(M) - 1) |-> DropAt(DropAt(M, r)[a], c)]
Sign(k) == IF k % 2 = 0 THEN ROne ELSE RNeg(ROne)

RECURSIVE Det(_)
Det(M) ==
    IF Len(M) = 0 THEN ROne
    ELSE RSum([c \in 1..Len(M) |->
                 RMul(RMul(Sign(1 + c), M[1][c]), Det(Minor(M, 1, c)))])

\* np.linalg.inv on a matrix it accepts: the inverse (adjugate over determinant)
Inv(M) ==
    [r \in 1..Len(M) |-> [c \in 1..Len(M) |->
        RDiv(RMul(Sign(r + c), Det(Minor(M, c, r))), Det(M))]]

\* np.diag of a square matrix
Diag(M) == [k \in 1..Len(M) |-> M[k][k]]

\* np.sqrt of one entry: the exact root is kept symbolic, the root of a
\* negative number is nan
Sqrt(r) == IF r[1] < 0 THEN [nan |-> TRUE, of |-> RZero] ELSE [nan |-> FALSE, of |-> r]

(***************************************************************************)
(* Caller-supplied model functions and their Jacobians                     *)
(***************************************************************************)
Half == <<1, 2>>
MultinomialModels == {"ber", "sq", "tri", "red"}
PoissonModels == {"rate"}

NParams(m) == IF m \in {"ber", "sq", "rate"} THEN 1 ELSE 2

\* the model function called with the parameters unpacked, model(*x)
ModelValue(m, x) ==
    CASE m = "ber" -> <<x[1], RSub(ROne, x[1])>>
      [] m = "sq" -> <<RMul(x[1], x[1]), RSub(ROne, RMul(x[1], x[1]))>>
      [] m = "tri" -> <<RMul(Half, x[1]), RMul(Half, x[2]),
                        RSub(ROne, RMul(Half, RAdd(x[1], x[2])))>>
      [] m = "red" -> <<RMul(Half, RAdd(x[1], x[2])),
                        RSub(ROne, RMul(Half, RAdd(x[1], x[2])))>>
      [] m = "rate" -> <<x[1], x[1]>>

NCat(m) == IF m = "tri" THEN 3 ELSE 2

\* jacobian(model, argnum = i - 1) called with the parameters unpacked
Jacobian(m, i, x) ==
    CASE m = "ber" -> <<ROne, RNeg(ROne)>>
      [] m = "sq" -> <<RMul(Rat(2), x[1]), RNeg(RMul(Rat(2), x[1]))>>
      [] m = "tri" -> IF i = 1 THEN <<Half, RZero, RNeg(Half)>>
                               ELSE <<RZero, Half, RNeg(Half)>>
      [] m = "red" -> <<Half, RNeg(Half)>>
      [] m = "rate" -> <<ROne, ROne>>

\* the parameter vectors the optimizer may return for a call of length n
ParamVals == {Norm(k, ParamDen) : k \in 1..MaxNum}
ParamVecs(n) == [1..n -> ParamVals]
\* a model value of exactly zero makes the division produce inf/nan, which
\* the rational arithmetic does not represent
NonZero(m, x) == \A k \in 1..NCat(m) : ModelValue(m, x)[k][1] # 0

\* observed count data
DataSets == {<<20, 30>>, <<20, 30, 30>>}

RECURSIVE Sum(_)
Sum(v) == IF v = <<>> THEN 0 ELSE v[1] + Sum(Tail(v))

(***************************************************************************)
(* The likelihood instances                                                *)
(***************************************************************************)
Insts == {"m", "p"}
\* "m" is a MultinomialLikelihood, "p" a PoissonLikelihood
IsMultinomial(i) == i = "m"

\* the instance has no attribute opt_result
NoResult == [present |-> FALSE, x |-> <<>>, success |-> FALSE]
OptimizeResult(x, s) == [present |-> TRUE, x |-> x, success |-> s]

NoCall == [op |-> "none", inst |-> "none", outcome |-> "none", error |-> "none",
           value |-> <<>>, written |-> {}, before |-> <<>>]
Returned(op, i, v, w) == [op |-> op, inst |-> i, outcome |-> "ok", error |-> "none",
                          value |-> v, written |-> w, before |-> <<>>]
Raised(op, i, e) == [op |-> op, inst |-> i, outcome |-> "error", error |-> e,
                     value |-> <<>>, written |-> {}, before |-> <<>>]

NoMatrix == [present |-> FALSE, value |-> <<>>]

\* np.empty(shape=(n, n)): the entries are whatever the memory holds, here
\* all zero (fresh pages) or, for seed g > 0, g times the entry's position
Garbage == {0, 1}
EmptyMatrices(n) ==
    {[r \in Idx(n) |-> [c \in Idx(n) |-> Rat(g * (n * (r - 1) + c))]] : g \in Garbage}

\* MultinomialLikelihood.n_counts
n_counts(d) == Sum(d)

\* the pairs (i, j), j >= i, in the order the two nested loops visit them
RECURSIVE UpperPairsFrom(_, _, _)
UpperPairsFrom(i, j, n) ==
    IF i > n THEN <<>>
    ELSE IF j > n THEN UpperPairsFrom(i + 1, i + 1, n)
    ELSE <<(<<i, j>>)>> \o UpperPairsFrom(i, j + 1, n)
\* a defect: the inner loop starts at i + 1, range(i + 1, n_params)
UpperPairs_StrictlyAbove(n) ==
    SelectSeq(UpperPairsFrom(1, 1, n), LAMBDA p : p[1] # p[2])
UpperPairs(n) == UpperPairsFrom(1, 1, n)

\* one entry: (grad_pmf[i](*x) * grad_pmf[j](*x) / pmf(*x)).sum()
FisherEntry(m, x, i, j) ==
    RSum(VDiv(VMul(Jacobian(m, i, x), Jacobian(m, j, x)), ModelValue(m, x)))

\* a defect: the entry is not mirrored into [j, i]
AssignPair_NoMirror(acc, m, x, i, j) ==
    [fisher |-> [acc.fisher EXCEPT ![i][j] = FisherEntry(m, x, i, j)],
     written |-> acc.written \cup {<<i, j>>}]

\* the body of the inner loop: fisher[i, j] = ...; fisher[j, i] = fisher[i, j]
AssignPair(acc, m, x, i, j) ==
    LET upper == [acc.fisher EXCEPT ![i][j] = FisherEntry(m, x, i, j)]
    IN  [fisher |-> [upper EXCEPT ![j][i] = upper[i][j]],
         written |-> acc.written \cup {<<i, j>>, <<j, i>>}]

RECURSIVE FisherLoop(_, _, _, _)
FisherLoop(acc, m, x, todo) ==
    IF todo = <<>> THEN acc
    ELSE FisherLoop(AssignPair(acc, m, x, todo[1][1], todo[1][2]), m, x, Tail(todo))

\* a defect: the scaling is applied inside the loop, to the upper triangle only
ScaleByCounts_UpperOnly(d, F) ==
    [r \in 1..Len(F) |-> [c \in 1..Len(F) |->
        IF r <= c THEN RMul(Rat(n_counts(d)), F[r][c]) ELSE F[r][c]]]

\* fisher = self.n_counts * fisher
ScaleByCounts(d, F) ==
    [r \in 1..Len(F) |-> [c \in 1..Len(F) |-> RMul(Rat(n_counts(d)), F[r][c])]]

\* MultinomialLikelihood.fisher_information_matrix with opt_result set:
\* the matrix returned and the entries the loops assigned
MultinomialFisher(d, m, x, empty) ==
    LET n == Len(x)
        looped == FisherLoop([fisher |-> empty, written |-> {}], m, x, UpperPairs(n))
    IN  [fisher |-> ScaleByCounts(d, looped.fisher), written |-> looped.written]

\* a defect: the matrix is refused unless the stored fit succeeded
FisherCall_RequiresSuccess(i, empty) ==
    IF ~IsMultinomial(i) THEN Raised("fisher", i, "TypeError")
    ELSE IF ~opt_result[i].present \/ ~opt_result[i].success
    THEN Raised("fisher", i, "AttributeError")
    ELSE LET r == MultinomialFisher(data[i], model[i], opt_result[i].x, empty)
         IN  Returned("fisher", i, r.fisher, r.written)

\* a defect: a missing opt_result is read as no parameters, an empty matrix
FisherCall_EmptyWhenUnfit(i, empty) ==
    IF ~IsMultinomial(i) THEN Raised("fisher", i, "TypeError")
    ELSE IF ~opt_result[i].present THEN Returned("fisher", i, <<>>, {})
    ELSE LET r == MultinomialFisher(data[i], model[i], opt_result[i].x, empty)
         IN  Returned("fisher", i, r.fisher, r.written)

\* self.fisher_information_matrix() on instance i, np.empty handing out `empty`
FisherCall(i, empty) ==
    IF ~IsMultinomial(i)
    THEN \* PoissonLikelihood.fisher_information_matrix is declared without
         \* self: the bound call passes one argument to a function of none
         Raised("fisher", i, "TypeError")
    ELSE IF ~opt_result[i].present
    THEN Raised("fisher", i, "AttributeError")
    ELSE LET r == MultinomialFisher(data[i], model[i], opt_result[i].x, empty)
         IN  Returned("fisher", i, r.fisher, r.written)

\* the shapes np.empty may be asked for by a call on instance i
EmptyFor(i) ==
    IF IsMultinomial(i) /\ opt_result[i].present
    THEN EmptyMatrices(Len(opt_result[i].x))
    ELSE {<<>>}

\* a defect: the diagonal of the matrix itself, not of its inverse
UncertaintiesCall_DiagonalOfFisher(i, f) ==
    IF f.outcome = "error" THEN Raised("uncertainties", i, f.error)
    ELSE IF Det(f.value) = RZero THEN Raised("uncertainties", i, "LinAlgError")
    ELSE Returned("uncertainties", i,
                  [k \in 1..Len(f.value) |-> Sqrt(Diag(f.value)[k])], {})

\* Likelihood.uncertainties, given what self.fisher_information_matrix() did
UncertaintiesCall(i, f) ==
    IF f.outcome = "error" THEN Raised("uncertainties", i, f.error)
    ELSE IF Det(f.value) = RZero THEN Raised("uncertainties", i, "LinAlgError")
    ELSE LET inv_fisher == Inv(f.value)
         IN  Returned("uncertainties", i,
                      [k \in 1..Len(inv_fisher) |-> Sqrt(Diag(inv_fisher)[k])], {})

\* a defect: only a successful result is stored
FitStore_OnlyOnSuccess(old, res) == IF res.success THEN res ELSE old

\* self.opt_result = minimize(...): what the attribute holds afterwards
FitStore(old, res) == res

\* evaluate(params): the negative log likelihood, the logarithms kept symbolic
EvaluateCall(i, params) ==
    IF Len(params) # NParams(model[i]) THEN Raised("evaluate", i, "TypeError")
    ELSE LET v == ModelValue(model[i], params)
         IN  IF IsMultinomial(i)
             THEN \* - (data * log(pmf)).sum()
                  Returned("evaluate", i,
                           [neg |-> TRUE, lin |-> RZero,
                            logs |-> [k \in 1..Len(v) |-> <<data[i][k], v[k]>>]], {})
             ELSE \* (mean - data * log(mean)).sum()
                  Returned("evaluate", i,
                           [neg |-> TRUE, lin |-> RNeg(RSum(v)),
                            logs |-> [k \in 1..Len(v) |-> <<data[i][k], v[k]>>]], {})

(***************************************************************************)
(* Operations on the likelihood instances                                  *)
(***************************************************************************)
\* __init__(data, pmf) and __init__(data, mean): nothing else is set
InitMLE ==
    /\ model \in [Insts -> MultinomialModels \cup PoissonModels]
    /\ model["m"] \in MultinomialModels
    /\ model["p"] \in PoissonModels
    /\ data \in [Insts -> DataSets]
    /\ \A i \in Insts : Len(data[i]) = NCat(model[i])
    /\ opt_result = [i \in Insts |-> NoResult]
    /\ last = NoCall
    /\ fitReturned = [i \in Insts |-> NoResult]
    /\ prevFisher = [i \in Insts |-> NoMatrix]

\* fit(x0, method, **kwargs) when minimize returns
FitReturns(i) ==
    \E x \in ParamVecs(NParams(model[i])), s \in BOOLEAN :
        /\ NonZero(model[i], x)
        /\ LET res == OptimizeResult(x, s)
           IN  /\ opt_result' = [opt_result EXCEPT ![i] = FitStore(opt_result[i], res)]
               /\ fitReturned' = [fitReturned EXCEPT ![i] = res]
               /\ last' = [Returned("fit", i, res, {}) EXCEPT !.before = opt_result[i]]
        /\ prevFisher' = [prevFisher EXCEPT ![i] = NoMatrix]
        /\ UNCHANGED <<data, model, l1Vars>>

\* a defect: fit drops the stored result before it calls minimize
FitRaises_DropsResult(i) ==
    /\ last' = [Raised("fit", i, "OptimizerError") EXCEPT !.before = opt_result[i]]
    /\ opt_result' = [opt_result EXCEPT ![i] = NoResult]
    /\ prevFisher' = [prevFisher EXCEPT ![i] = NoMatrix]
    /\ UNCHANGED <<data, model, fitReturned, l1Vars>>

\* fit(x0, method, **kwargs) when minimize raises (an objective that raises,
\* an unknown method): the assignment never happens
FitRaises(i) ==
    /\ last' = [Raised("fit", i, "OptimizerError") EXCEPT !.before = opt_result[i]]
    /\ prevFisher' = [prevFisher EXCEPT ![i] = NoMatrix]
    /\ UNCHANGED <<data, model, opt_result, fitReturned, l1Vars>>

\* evaluate(params)
Evaluate(i) ==
    \E n \in 1..2 : \E params \in ParamVecs(n) :
        /\ last' = EvaluateCall(i, params)
        /\ UNCHANGED <<data, model, opt_result, fitReturned, prevFisher, l1Vars>>

\* fisher_information_matrix()
FisherInformationMatrix(i) ==
    \E empty \in EmptyFor(i) :
        /\ last' = [FisherCall(i, empty) EXCEPT !.before = prevFisher[i]]
        /\ prevFisher' = IF last'.outcome = "ok"
                         THEN [prevFisher EXCEPT ![i] = [present |-> TRUE, value |-> last'.value]]
                         ELSE prevFisher
        /\ UNCHANGED <<data, model, opt_result, fitReturned, l1Vars>>

\* uncertainties()
Uncertainties(i) ==
    \E empty \in EmptyFor(i) :
        /\ last' = [UncertaintiesCall(i, FisherCall(i, empty)) EXCEPT !.before = prevFisher[i]]
        /\ UNCHANGED <<data, model, opt_result, fitReturned, prevFisher, l1Vars>>

(***************************************************************************)
(* The L1Norm instance                                                     *)
(***************************************************************************)
None == "None"
RegFuncs == {"abs", "square"}
L1DataSets == {<<1, 3>>, <<0, 2>>, <<2, 2, 5>>}
L1Params == UNION {[1..n -> 0..MaxL1] : n \in 1..2}

NoL1Call == [op |-> "none", path |-> "none", outcome |-> "none", value |-> 0]

\* the regularization function applied to the 1-tuple (a,)
RegValue(f, a) == IF f = "abs" THEN Abs(a) ELSE a * a

RECURSIVE L1Residuals(_, _)
\* np.nansum(np.absolute(data - a + extra)) term by term
L1Residuals(d, a) == IF d = <<>> THEN 0 ELSE Abs(d[1] - a) + L1Residuals(Tail(d), a)

\* the regularization setter
SetRegularization(obj, func) ==
    IF func # None THEN [obj EXCEPT !._regularization = func]
    ELSE [obj EXCEPT !._regularization = None]

\* L1Norm.__init__(data, model, regularization)
L1New(d, regularization) ==
    LET obj == SetRegularization([data |-> d, model |-> "loc", _regularization |-> None,
                                  _evaluate |-> "none"], regularization)
    IN  IF obj._regularization = None
        THEN [obj EXCEPT !._evaluate = "_evaluate_wo_regularization"]
        ELSE [obj EXCEPT !._evaluate = "_evaluate_w_regularization"]

\* _evaluate_wo_regularization(*params): the model is a function of one
\* location parameter, model(a) = a
EvaluateWoRegularization(obj, params) ==
    IF Len(params) # 1
    THEN [op |-> "evaluate", path |-> "wo", outcome |-> "error", value |-> 0]
    ELSE [op |-> "evaluate", path |-> "wo", outcome |-> "ok",
          value |-> L1Residuals(obj.data, params[1])]

\* _evaluate_w_regularization(*params): the model and the regularization are
\* called with the tuple params[:-1], the last parameter is the weight
EvaluateWRegularization(obj, params) ==
    LET head == SubSeq(params, 1, Len(params) - 1)
        weight == params[Len(params)]
    IN  IF Len(head) # 1 \/ obj._regularization = None
        THEN [op |-> "evaluate", path |-> "w", outcome |-> "error", value |-> 0]
        ELSE [op |-> "evaluate", path |-> "w", outcome |-> "ok",
              value |-> L1Residuals(obj.data, head[1])
                        + Len(obj.data) * weight * RegValue(obj._regularization, head[1])]

\* evaluate(params): self._evaluate(*params)
L1EvaluateCall(obj, params) ==
    IF obj._evaluate = "_evaluate_wo_regularization"
    THEN EvaluateWoRegularization(obj, params)
    ELSE EvaluateWRegularization(obj, params)

InitL1 ==
    /\ \E d \in L1DataSets, r \in RegFuncs \cup {None} : l1 = L1New(d, r)
    /\ l1last = NoL1Call

\* obj.regularization = func
L1SetRegularization ==
    \E func \in RegFuncs \cup {None} :
        /\ l1' = SetRegularization(l1, func)
        /\ l1last' = [op |-> "set", path |-> "none", outcome |-> "ok", value |-> 0]
        /\ UNCHANGED mleVars

L1Evaluate ==
    \E params \in L1Params :
        /\ l1last' = L1EvaluateCall(l1, params)
        /\ UNCHANGED <<l1, mleVars>>

(***************************************************************************)
(* Specifications                                                          *)
(***************************************************************************)
\* the likelihood instances, beside an L1Norm nobody calls
Init ==
    /\ InitMLE
    /\ l1 = L1New(<<1, 3>>, None)
    /\ l1last = NoL1Call

Next ==
    \E i \in Insts :
        \/ FitReturns(i)
        \/ FitRaises(i)
        \/ Evaluate(i)
        \/ FisherInformationMatrix(i)
        \/ Uncertainties(i)

Spec == Init /\ [][Next]_vars

\* the L1Norm instance, beside two likelihoods nobody calls
InitLoss ==
    /\ InitL1
    /\ data = [i \in Insts |-> <<20, 30>>]
    /\ model = [i \in Insts |-> IF IsMultinomial(i) THEN "ber" ELSE "rate"]
    /\ opt_result = [i \in Insts |-> NoResult]
    /\ last = NoCall
    /\ fitReturned = [i \in Insts |-> NoResult]
    /\ prevFisher = [i \in Insts |-> NoMatrix]

NextLoss == L1SetRegularization \/ L1Evaluate

SpecLoss == InitLoss /\ [][NextLoss]_vars

(***************************************************************************)
(* Properties of the likelihood contract and of the L1 loss               *)
(***************************************************************************)
MatrixCalls == {"fisher", "uncertainties"}
Fitted(i) == opt_result[i].present

\* sum over k of (d model_k / d theta_r) * (d model_k / d theta_c) / model_k at x
Information(m, x, r, c) ==
    RSum([k \in 1..NCat(m) |->
            RDiv(RMul(Jacobian(m, r, x)[k], Jacobian(m, c, x)[k]), ModelValue(m, x)[k])])

\* the matrix of a multinomial: the total count times the information
MultinomialInformation(d, m, x) ==
    [r \in 1..Len(x) |-> [c \in 1..Len(x) |-> RMul(Rat(Sum(d)), Information(m, x, r, c))]]

\* the matrix of a Poisson model: no total-count scaling
PoissonInformation(m, x) ==
    [r \in 1..Len(x) |-> [c \in 1..Len(x) |-> Information(m, x, r, c)]]

MatMul(A, B) ==
    [r \in 1..Len(A) |-> [c \in 1..Len(A) |->
        RSum([k \in 1..Len(A) |-> RMul(A[r][k], B[k][c])])]]
Identity(n) == [r \in 1..n |-> [c \in 1..n |-> IF r = c THEN ROne ELSE RZero]]

\* C1: on a fitted PoissonLikelihood fisher_information_matrix() returns the
\* n x n matrix F[i,j] = sum_k (d mean_k/d theta_i * d mean_k/d theta_j) / mean_k
\* at the fitted parameters, without total-count scaling, and does not fail.
C1_PoissonFisherReturnsInformation ==
    (last.op = "fisher" /\ ~IsMultinomial(last.inst) /\ Fitted(last.inst))
        => /\ last.outcome = "ok"
           /\ last.value = PoissonInformation(model[last.inst], opt_result[last.inst].x)

\* C2 as stated: fisher_information_matrix() and uncertainties() return a
\* value only if the stored Fit Result has its success flag set.
C2_ReturnsOnlyAfterSuccessfulFit ==
    (last.op \in MatrixCalls /\ last.outcome = "ok") => opt_result[last.inst].success

\* C2 as amended: fisher_information_matrix() and uncertainties() return a
\* value only if a Fit Result is stored; the success flag is not consulted:
\* with a Fit Result stored, successful or not, the multinomial
\* fisher_information_matrix() returns.
C2_ReturnsOnlyAfterSomeFit ==
    /\ (last.op \in MatrixCalls /\ last.outcome = "ok") => Fitted(last.inst)
    /\ (last.op = "fisher" /\ IsMultinomial(last.inst) /\ Fitted(last.inst))
           => last.outcome = "ok"

C2_Witness ==
    /\ last.op = "fisher"
    /\ last.outcome = "ok"
    /\ Fitted(last.inst)
    /\ ~opt_result[last.inst].success

\* C3: on an instance of either variant that holds no Fit Result,
\* fisher_information_matrix() and uncertainties() end in an error, return
\* nothing, and leave data, model function and Fit Result as they were.
C3_UnfitCallFails ==
    [][(last'.op \in MatrixCalls /\ ~Fitted(last'.inst))
          => /\ last'.outcome = "error"
             /\ last'.error \in {"AttributeError", "TypeError"}
             /\ last'.value = <<>>
             /\ UNCHANGED <<data, model, opt_result>>]_vars

C3_Witness ==
    /\ last.op = "uncertainties"
    /\ IsMultinomial(last.inst)
    /\ ~Fitted(last.inst)
    /\ last.error = "AttributeError"

\* C4: a completed fit stores exactly the result it returns, whatever its
\* success flag; the stored Fit Result is always the one the most recent
\* completed fit returned, and a matrix or uncertainty vector returned
\* afterwards is computed from that result's parameters.
C4_StoredIsMostRecentFit ==
    /\ \A i \in Insts : opt_result[i] = fitReturned[i]
    /\ (last.op = "fit" /\ last.outcome = "ok") => opt_result[last.inst] = last.value
    /\ (last.op = "fisher" /\ last.outcome = "ok")
           => last.value = MultinomialInformation(data[last.inst], model[last.inst],
                                                  fitReturned[last.inst].x)
    /\ (last.op = "uncertainties" /\ last.outcome = "ok")
           => LET F == MultinomialInformation(data[last.inst], model[last.inst],
                                              fitReturned[last.inst].x)
              IN  \A k \in 1..Len(F) : last.value[k] = Sqrt(Inv(F)[k][k])

\* a fit that returned an unsuccessful result over other stored parameters
C4_Witness ==
    /\ last.op = "fit"
    /\ last.outcome = "ok"
    /\ ~last.value.success
    /\ last.before.present
    /\ last.before.x # last.value.x
    /\ opt_result[last.inst] = last.value

\* C5: the multinomial matrix is n x n and every entry F[i,j], the mirrored
\* ones included, is sum(data) times sum_k (d pmf_k/d theta_i *
\* d pmf_k/d theta_j) / pmf_k at the fitted parameters, scaled exactly once.
C5_MultinomialFisherIsScaledInformation ==
    (last.op = "fisher" /\ last.outcome = "ok")
        => LET x == opt_result[last.inst].x
           IN  /\ Len(last.value) = Len(x)
               /\ \A r \in 1..Len(x) :
                      /\ Len(last.value[r]) = Len(x)
                      /\ \A c \in 1..Len(x) :
                             last.value[r][c] =
                                 RMul(Rat(Sum(data[last.inst])),
                                      Information(model[last.inst], x, r, c))

\* a two-parameter model whose mirrored entry is not zero
C5_Witness ==
    /\ last.op = "fisher"
    /\ last.outcome = "ok"
    /\ Len(last.value) = 2
    /\ last.value[2][1] # RZero
    /\ last.value[2][1] # last.value[1][1]

\* C6: the returned matrix is exactly symmetric and every one of its n * n
\* entries was assigned by the upper-triangle-then-mirror loop.
C6_SymmetricAndFullyAssigned ==
    (last.op = "fisher" /\ last.outcome = "ok")
        => LET n == Len(opt_result[last.inst].x)
           IN  /\ n >= 1
               /\ \A r \in 1..n : \A c \in 1..n : last.value[r][c] = last.value[c][r]
               /\ last.written = Pairs(n)

C6_Witness ==
    /\ last.op = "fisher"
    /\ last.outcome = "ok"
    /\ Cardinality(last.written) = 4
    /\ last.value[1][2] # RZero

\* C7: a second fisher_information_matrix() with no fit call in between
\* returns the same matrix as the one before, however often the method or
\* uncertainties() was called.
C7_RepeatedFisherIsIdentical ==
    [][(last'.op = "fisher" /\ last'.outcome = "ok" /\ prevFisher[last'.inst].present)
          => last'.value = prevFisher[last'.inst].value]_vars

\* a repeated call on a two-parameter model
C7_Witness ==
    /\ last.op = "fisher"
    /\ last.outcome = "ok"
    /\ last.before.present
    /\ Len(last.value) = 2

\* C8: where the matrix computed from the stored Fit Result has determinant
\* zero, uncertainties() ends in an error and returns no vector; where it is
\* invertible, uncertainties() returns one entry per parameter, entry i the
\* square root of entry [i,i] of the inverse.
C8_UncertaintiesFromInverse ==
    (last.op = "uncertainties" /\ IsMultinomial(last.inst) /\ Fitted(last.inst))
        => LET F == MultinomialInformation(data[last.inst], model[last.inst],
                                           opt_result[last.inst].x)
               n == Len(opt_result[last.inst].x)
           IN  IF Det(F) = RZero
               THEN last.outcome = "error" /\ last.error = "LinAlgError" /\ last.value = <<>>
               ELSE /\ last.outcome = "ok"
                    /\ Len(last.value) = n
                    /\ MatMul(F, Inv(F)) = Identity(n)
                    /\ \A k \in 1..n : last.value[k] = Sqrt(Inv(F)[k][k])

\* the worked example: counts [20, 30], pmf p -> [p, 1 - p], p = 0.4, whose
\* uncertainty is sqrt(0.4 * 0.6 / 50) = sqrt(3/625)
C8_Witness ==
    /\ last.op = "uncertainties"
    /\ last.outcome = "ok"
    /\ model[last.inst] = "ber"
    /\ data[last.inst] = <<20, 30>>
    /\ opt_result[last.inst].x = <<(<<2, 5>>)>>
    /\ last.value = <<[nan |-> FALSE, of |-> <<3, 625>>]>>

\* C9: evaluate runs the regularized path if and only if the current value
\* of regularization is not None.
C9_PathFollowsRegularization ==
    (l1last.op = "evaluate") => (l1last.path = "w" <=> l1._regularization # None)

\* C10: only fit changes instance state, and only the Fit Result of the
\* instance it is called on; evaluate, fisher_information_matrix and
\* uncertainties, returning or failing, change nothing, and data and model
\* function never change.
C10_OnlyFitChangesItsOwnResult ==
    [][/\ data' = data
       /\ model' = model
       /\ \A i \in Insts :
              opt_result'[i] # opt_result[i]
                  => last'.op = "fit" /\ last'.inst = i /\ last'.outcome = "ok"]_vars

\* a failed uncertainties() on one instance while the other holds a Fit Result
C10_Witness ==
    /\ last.op = "uncertainties"
    /\ last.outcome = "error"
    /\ last.inst = "p"
    /\ Fitted("p")
    /\ Fitted("m")

====
